---- MODULE Spec2Model ----
(***************************************************************************)
(* A model of pre_commit_pylint/run_pylint.py: the pre-commit hook that    *)
(* provisions a cached virtualenv keyed by the hash of the requirements    *)
(* manifest and then runs pylint inside it.                                *)
(*                                                                         *)
(* Strings that the program takes apart (the manifest text, the            *)
(* --requirements path) are sequences of one-character strings; paths are  *)
(* sequences of path components; os.environ is a function whose domain is  *)
(* the set of variables that are set.                                      *)
(***************************************************************************)
EXTENDS Integers, Sequences, FiniteSets, TLC

VARIABLES
    argv,             \* the command line: [requirements: 0 or 1 paths, files]
    args,             \* parse_arguments' namespace: [requirements, files]
    manifest_present, \* whether the file named by --requirements can be opened
    manifest_text,    \* its content
    environ,          \* os.environ
    dirs,             \* the directories that exist under the cache root
    installed,        \* those of them in which pip install completed
    pc,               \* main's position
    reqs,             \* main's local reqs
    reqs_hash,        \* main's local reqs_hash
    venv_dir,         \* main's local venv_dir
    to_restore,       \* venv_context's snapshot of os.environ
    exc,              \* the exception in flight inside a venv_context body
    install_result,   \* how install_virtualenv ended in this run
    result,           \* how main ended in this run
    spawned,          \* the external processes started in this run, in order
    fslog,            \* the filesystem accesses of this run, in order
    stderr,           \* what this run printed to sys.stderr
    runs,             \* the number of runs finished before this one
    environ_at_entry, \* history: os.environ when main was entered
    dirs_at_start,    \* history: dirs when this run started
    kpc,              \* the cache-key derivation: position
    textA, textB,     \* the cache-key derivation: two manifest texts
    reqsA, reqsB,     \* their requirement lists
    joinedA, joinedB, \* the strings that are hashed
    keyA, keyB        \* the cache keys

mainvars == <<argv, args, manifest_present, manifest_text, environ, dirs,
              installed, pc, reqs, reqs_hash, venv_dir, to_restore, exc,
              install_result, result, spawned, fslog, stderr, runs,
              environ_at_entry, dirs_at_start>>
keyvars == <<kpc, textA, textB, reqsA, reqsB, joinedA, joinedB, keyA, keyB>>
vars == <<mainvars, keyvars>>

----------------------------------------------------------------------------
(* Bounds *)

\* the number of runs of the hook that follow the first one
MaxRuns == 2
\* exit codes of the external tools range over 0..MaxExit
MaxExit == 2
\* the longest manifest text of a run of main
MaxManifestLen == 1
\* the longest manifest text of the cache-key derivation
MaxTextLen == 3

NL == "\n"
Chars == {"p", " ", NL}
ExitCodes == 0..MaxExit

TextsUpTo(n) == UNION {[1..k -> Chars] : k \in 0..n}

\* argparse's default for --requirements, 'requirements.txt'
DefaultRequirements ==
    <<"r", "e", "q", "u", "i", "r", "e", "m", "e", "n", "t", "s", ".", "t", "x", "t">>

----------------------------------------------------------------------------
(* Pure functions *)

RECURSIVE SplitLines(_, _)
\* f.readlines(): the text cut after every newline, line ends kept; cur is
\* the line being collected
SplitLines(text, cur) ==
    IF text = <<>>
    THEN IF cur = <<>> THEN <<>> ELSE <<cur>>
    ELSE IF Head(text) = NL
         THEN <<Append(cur, NL)>> \o SplitLines(Tail(text), <<>>)
         ELSE SplitLines(Tail(text), Append(cur, Head(text)))

read_requirements(text) == SplitLines(text, <<>>)

RECURSIVE Join(_, _)
\* sep.join(list)
Join(sep, list) ==
    IF list = <<>> THEN <<>>
    ELSE IF Len(list) = 1 THEN list[1]
    ELSE list[1] \o sep \o Join(sep, Tail(list))

\* hashlib.sha1(b).hexdigest(): the digest is taken to be collision-free, an
\* injective image of the bytes hashed
Sha1Hex(bytes) == ToString(bytes)

\* as HashedString, with the line ends stripped before the join
HashedStringStripped(lines) ==
    Join(<<NL>>, [i \in 1..Len(lines) |->
        IF lines[i][Len(lines[i])] = NL
        THEN SubSeq(lines[i], 1, Len(lines[i]) - 1)
        ELSE lines[i]])

\* '\n'.join(reqs): the string main hashes (its characters are ASCII, so
\* .encode() yields one byte per character)
HashedString(lines) == Join(<<NL>>, lines)

CacheKey(lines) == Sha1Hex(HashedString(lines))

\* *s for a str s: one single-character string per character
StarStr(s) == [i \in 1..Len(s) |-> <<s[i]>>]

\* os.path.abspath(os.path.join(p, os.pardir))
Parent(p) == IF p = <<>> THEN <<>> ELSE SubSeq(p, 1, Len(p) - 1)

IsSet(env, k) == k \in DOMAIN env
SetVar(env, k, v) == [x \in DOMAIN env \cup {k} |-> IF x = k THEN v ELSE env[x]]
PopVar(env, k) == [x \in DOMAIN env \ {k} |-> env[x]]

\* os.name of the platform modelled
os_name == "posix"

bin_dir(venv) == venv \o <<IF os_name = "nt" THEN "Scripts" ELSE "bin">>

\* venv_context, up to the yield
Activate(env, venv) ==
    LET e1 == PopVar(env, "PYTHON_HOME")
        e2 == SetVar(e1, "PIP_DISABLE_PIP_VERSION_CHECK", "1")
        e3 == SetVar(e2, "VIRTUAL_ENV", venv)
        old == IF IsSet(e3, "PATH") THEN e3["PATH"] ELSE <<<<>>>>
    IN  SetVar(e3, "PATH", <<bin_dir(venv)>> \o old)


\* as cache_dir, falling back to the working directory instead of raising
cache_dir_fallback(env) ==
    IF ~IsSet(env, "VIRTUAL_ENV")
    THEN [raised |-> FALSE, path |-> <<"cwd">>]
    ELSE [raised |-> FALSE, path |-> Parent(env["VIRTUAL_ENV"])]

\* cache_dir(): the parent of the active virtualenv, or RuntimeError
cache_dir(env) ==
    IF ~IsSet(env, "VIRTUAL_ENV")
    THEN [raised |-> TRUE, path |-> <<>>]
    ELSE [raised |-> FALSE, path |-> Parent(env["VIRTUAL_ENV"])]

\* venv_cache_dir(reqs_hash): os.path.join(cache_dir(), 'pylint_venvs', reqs_hash)
venv_cache_dir(env, h) ==
    LET c == cache_dir(env)
    IN  [raised |-> c.raised,
         path |-> IF c.raised THEN <<>> ELSE c.path \o <<"pylint_venvs", h>>]

\* venv_context's finally block: env.clear(); env.update(to_restore)
Update(env, other) ==
    [x \in DOMAIN env \cup DOMAIN other |->
        IF x \in DOMAIN other THEN other[x] ELSE env[x]]
\* as Restore, without env.clear()
RestoreNoClear(env, snapshot) == Update(env, snapshot)

Restore(env, snapshot) == Update([x \in {} |-> ""], snapshot)

NoExc ==
    [type |-> "none", returncode |-> 0, prog |-> "", cmd_pytype |-> "",
     stdout_pytype |-> "", stderr_pytype |-> ""]

\* as call, with check=False
call_unchecked(prog, capture_output, returncode) == NoExc

\* call(*command, capture_output, check=True) for a process that ran and
\* exited with returncode: subprocess.run raises CalledProcessError(returncode,
\* args) when it is not 0; args is the tuple command, and the captured streams
\* are bytes (None when they are not captured)
call(prog, capture_output, returncode) ==
    IF returncode # 0
    THEN [type |-> "CalledProcessError", returncode |-> returncode,
          prog |-> prog, cmd_pytype |-> "tuple",
          stdout_pytype |-> IF capture_output THEN "bytes" ELSE "NoneType",
          stderr_pytype |-> IF capture_output THEN "bytes" ELSE "NoneType"]
    ELSE NoExc

\* subprocess.run when the executable is not found on PATH
NotFound(prog) ==
    [type |-> "FileNotFoundError", returncode |-> 0, prog |-> prog,
     cmd_pytype |-> "", stdout_pytype |-> "", stderr_pytype |-> ""]

\* as process_error_to_str, with e.cmd converted to bytes before the join
process_error_to_str_converted(e) ==
    [raised |-> FALSE,
     text |-> [command |-> e.prog, stdout |-> TRUE, stderr |-> TRUE]]

\* process_error_to_str(e): b''.join over literals and e.cmd, e.stdout,
\* e.stderr, which raises TypeError unless every item is bytes
process_error_to_str(e) ==
    LET items == <<"bytes", e.cmd_pytype, "bytes", "bytes", e.stdout_pytype,
                   "bytes", "bytes", e.stderr_pytype, "bytes">>
    IN  IF \A i \in 1..Len(items) : items[i] = "bytes"
        THEN [raised |-> FALSE,
              text |-> [command |-> e.prog, stdout |-> TRUE, stderr |-> TRUE]]
        ELSE [raised |-> TRUE,
              text |-> [command |-> "", stdout |-> FALSE, stderr |-> FALSE]]

\* as path_exists, asking for the directory that holds the environments
path_exists_parent(p) == \E d \in dirs : Parent(d) = Parent(p)

\* as path_exists, asking for a completed installation
path_exists_installed(p) == p \in installed

\* os.path.exists(venv_dir)
path_exists(p) == p \in dirs

NoResult == [kind |-> "none", code |-> 0, exc |-> ""]
Returned(c) == [kind |-> "return", code |-> c, exc |-> ""]
Raised(e) == [kind |-> "raise", code |-> 0, exc |-> e]

\* raise SystemExit(main()): the process's exit status
ExitStatus(r) == IF r.kind = "return" THEN r.code ELSE 1

Spawn(prog, a, capture_output, started, returncode) ==
    [prog |-> prog, args |-> a, capture_output |-> capture_output,
     started |-> started, returncode |-> returncode]

----------------------------------------------------------------------------
(* The state after construction *)

OptionalVars == {"VIRTUAL_ENV", "PYTHON_HOME", "PIP_DISABLE_PIP_VERSION_CHECK", "PATH"}

InitialValue(x) ==
    CASE x = "VIRTUAL_ENV" -> <<"c", "v">>
      [] x = "PATH" -> <<<<"usr", "bin">>>>
      [] x = "PIP_DISABLE_PIP_VERSION_CHECK" -> "0"
      [] OTHER -> "h"

StaleDir == <<"c", "pylint_venvs", "stale">>

KeyIdle ==
    /\ kpc = "idle"
    /\ textA = <<>> /\ textB = <<>>
    /\ reqsA = <<>> /\ reqsB = <<>>
    /\ joinedA = <<>> /\ joinedB = <<>>
    /\ keyA = "" /\ keyB = ""

RunStart ==
    /\ pc = "start"
    /\ args = [requirements |-> <<>>, files |-> <<>>]
    /\ reqs = <<>>
    /\ reqs_hash = ""
    /\ venv_dir = <<>>
    /\ to_restore = [x \in {"HOME"} |-> "h"]
    /\ exc = NoExc
    /\ install_result = NoResult
    /\ result = NoResult
    /\ spawned = <<>>
    /\ fslog = <<>>
    /\ stderr = <<>>

Init ==
    /\ argv \in [requirements : {<<>>, <<<<"r">>>>}, files : {<<>>, <<"a.py">>}]
    /\ manifest_present \in BOOLEAN
    /\ manifest_text \in IF manifest_present THEN TextsUpTo(MaxManifestLen) ELSE {<<>>}
    /\ \E S \in SUBSET OptionalVars :
          environ = [x \in S \cup {"HOME"} |-> InitialValue(x)]
    /\ dirs \in SUBSET ({StaleDir} \cup
                 IF IsSet(environ, "VIRTUAL_ENV") /\ manifest_present
                 THEN {venv_cache_dir(environ,
                         CacheKey(read_requirements(manifest_text))).path}
                 ELSE {})
    /\ installed = dirs
    /\ runs = 0
    /\ environ_at_entry = environ
    /\ dirs_at_start = dirs
    /\ RunStart
    /\ KeyIdle

----------------------------------------------------------------------------
(* main, one action per step *)

EndRun(r) ==
    /\ result' = r
    /\ pc' = "done"

\* lines 91-92: parse_arguments
ParseArguments ==
    /\ pc = "start"
    /\ args' = [requirements |-> IF argv.requirements = <<>>
                                 THEN DefaultRequirements
                                 ELSE argv.requirements[1],
                files |-> argv.files]
    /\ pc' = "read"
    /\ UNCHANGED <<argv, manifest_present, manifest_text, environ, dirs,
                   installed, reqs, reqs_hash, venv_dir, to_restore, exc,
                   install_result, result, spawned, fslog, stderr, runs,
                   environ_at_entry, dirs_at_start, keyvars>>

\* line 94: reqs = read_requirements(args.requirements)
ReadRequirements ==
    /\ pc = "read"
    /\ fslog' = Append(fslog, [op |-> "open", found |-> manifest_present])
    /\ IF manifest_present
       THEN /\ reqs' = read_requirements(manifest_text)
            /\ pc' = "hash"
            /\ UNCHANGED result
       ELSE /\ EndRun(Raised("FileNotFoundError"))
            /\ UNCHANGED reqs
    /\ UNCHANGED <<argv, args, manifest_present, manifest_text, environ, dirs,
                   installed, reqs_hash, venv_dir, to_restore, exc,
                   install_result, spawned, stderr, runs,
                   environ_at_entry, dirs_at_start, keyvars>>

\* line 95: reqs_hash = hashlib.sha1('\n'.join(reqs).encode()).hexdigest()
ComputeHash ==
    /\ pc = "hash"
    /\ reqs_hash' = CacheKey(reqs)
    /\ pc' = "locate"
    /\ UNCHANGED <<argv, args, manifest_present, manifest_text, environ, dirs,
                   installed, reqs, venv_dir, to_restore, exc,
                   install_result, result, spawned, fslog, stderr, runs,
                   environ_at_entry, dirs_at_start, keyvars>>

\* line 96: venv_dir = venv_cache_dir(reqs_hash)
LocateVenv ==
    /\ pc = "locate"
    /\ LET v == venv_cache_dir(environ, reqs_hash)
       IN  IF v.raised
           THEN /\ EndRun(Raised("RuntimeError"))
                /\ UNCHANGED venv_dir
           ELSE /\ venv_dir' = v.path
                /\ pc' = "exists"
                /\ UNCHANGED result
    /\ UNCHANGED <<argv, args, manifest_present, manifest_text, environ, dirs,
                   installed, reqs, reqs_hash, to_restore, exc,
                   install_result, spawned, fslog, stderr, runs,
                   environ_at_entry, dirs_at_start, keyvars>>

\* line 98: if not os.path.exists(venv_dir)
CheckCache ==
    /\ pc = "exists"
    /\ fslog' = Append(fslog, [op |-> "exists", found |-> path_exists(venv_dir)])
    /\ pc' = IF path_exists(venv_dir) THEN "lint_enter" ELSE "install"
    /\ UNCHANGED <<argv, args, manifest_present, manifest_text, environ, dirs,
                   installed, reqs, reqs_hash, venv_dir, to_restore, exc,
                   install_result, result, spawned, stderr, runs,
                   environ_at_entry, dirs_at_start, keyvars>>


\* line 99 and lines 66-68: install_virtualenv is entered and runs
\* sys.executable -mvirtualenv venv_dir. The tool creates the directory when it
\* succeeds, and may or may not have created it when it fails.
CallVirtualenv ==
    /\ pc = "install"
    /\ \E c \in ExitCodes, made \in BOOLEAN :
          /\ c = 0 => made
          /\ spawned' = Append(spawned,
                 Spawn("virtualenv", <<venv_dir>>, TRUE, TRUE, c))
          /\ dirs' = IF made THEN dirs \cup {venv_dir} ELSE dirs
          /\ exc' = call("virtualenv", TRUE, c)
          /\ pc' = IF exc'.type = "none" THEN "pip_enter" ELSE "install_except"
    /\ UNCHANGED <<argv, args, manifest_present, manifest_text, environ,
                   installed, reqs, reqs_hash, venv_dir, to_restore,
                   install_result, result, fslog, stderr, runs,
                   environ_at_entry, dirs_at_start, keyvars>>

\* lines 30-40, entered from line 70 or line 102
EnterContext(from, to) ==
    /\ pc = from
    /\ to_restore' = environ
    /\ environ' = Activate(environ, venv_dir)
    /\ pc' = to
    /\ UNCHANGED <<argv, args, manifest_present, manifest_text, dirs,
                   installed, reqs, reqs_hash, venv_dir, exc,
                   install_result, result, spawned, fslog, stderr, runs,
                   environ_at_entry, dirs_at_start, keyvars>>

EnterPipContext == EnterContext("pip_enter", "pip")

\* line 71: call('pip', 'install', *requirements), requirements being what
\* main passed at line 99: args.requirements
PipArguments == StarStr(args.requirements)

CallPipRuns ==
    /\ pc = "pip"
    /\ \E c \in ExitCodes :
          /\ spawned' = Append(spawned,
                 Spawn("pip install", PipArguments, TRUE, TRUE, c))
          /\ installed' = IF c = 0 THEN installed \cup {venv_dir} ELSE installed
          /\ exc' = call("pip install", TRUE, c)
    /\ pc' = "pip_exit"
    /\ UNCHANGED <<argv, args, manifest_present, manifest_text, environ, dirs,
                   reqs, reqs_hash, venv_dir, to_restore,
                   install_result, result, fslog, stderr, runs,
                   environ_at_entry, dirs_at_start, keyvars>>

\* line 71 when no pip executable is found on PATH
CallPipNotFound ==
    /\ pc = "pip"
    /\ spawned' = Append(spawned,
           Spawn("pip install", PipArguments, TRUE, FALSE, 0))
    /\ exc' = NotFound("pip install")
    /\ pc' = "pip_exit"
    /\ UNCHANGED <<argv, args, manifest_present, manifest_text, environ, dirs,
                   installed, reqs, reqs_hash, venv_dir, to_restore,
                   install_result, result, fslog, stderr, runs,
                   environ_at_entry, dirs_at_start, keyvars>>

\* lines 41-43 on the way out of line 70's with: the environment is restored,
\* then the exception, if any, goes on: CalledProcessError to line 72, any
\* other out of install_virtualenv and out of main; with none,
\* install_virtualenv returns 0, which main (line 99) drops
ExitPipContext ==
    /\ pc = "pip_exit"
    /\ environ' = Restore(environ, to_restore)
    /\ CASE exc.type = "none" ->
              /\ install_result' = Returned(0)
              /\ pc' = "lint_enter"
              /\ UNCHANGED <<result, exc>>
         [] exc.type = "CalledProcessError" ->
              /\ pc' = "install_except"
              /\ UNCHANGED <<install_result, result, exc>>
         [] OTHER ->
              /\ install_result' = Raised(exc.type)
              /\ EndRun(Raised(exc.type))
              /\ exc' = NoExc
    /\ UNCHANGED <<argv, args, manifest_present, manifest_text, dirs,
                   installed, reqs, reqs_hash, venv_dir, to_restore,
                   spawned, fslog, stderr, runs,
                   environ_at_entry, dirs_at_start, keyvars>>

\* lines 72-74: print(process_error_to_str(e), file=sys.stderr);
\* return e.returncode. An exception of process_error_to_str leaves
\* install_virtualenv and main, which has no handler around line 99; a
\* returned code is dropped by line 99 and main goes on to line 101.
HandleInstallError ==
    /\ pc = "install_except"
    /\ LET d == process_error_to_str(exc)
       IN  IF d.raised
           THEN /\ install_result' = Raised("TypeError")
                /\ EndRun(Raised("TypeError"))
                /\ UNCHANGED stderr
           ELSE /\ stderr' = Append(stderr, d.text)
                /\ install_result' = Returned(exc.returncode)
                /\ pc' = "lint_enter"
                /\ UNCHANGED result
    /\ exc' = NoExc
    /\ UNCHANGED <<argv, args, manifest_present, manifest_text, environ, dirs,
                   installed, reqs, reqs_hash, venv_dir, to_restore,
                   spawned, fslog, runs,
                   environ_at_entry, dirs_at_start, keyvars>>

EnterLintContext == EnterContext("lint_enter", "lint")

\* line 103: call('pylint', *args.files, capture_output=False)
CallPylintRuns ==
    /\ pc = "lint"
    /\ \E c \in ExitCodes :
          /\ spawned' = Append(spawned,
                 Spawn("pylint", args.files, FALSE, TRUE, c))
          /\ exc' = call("pylint", FALSE, c)
    /\ pc' = "lint_exit"
    /\ UNCHANGED <<argv, args, manifest_present, manifest_text, environ, dirs,
                   installed, reqs, reqs_hash, venv_dir, to_restore,
                   install_result, result, fslog, stderr, runs,
                   environ_at_entry, dirs_at_start, keyvars>>

\* line 103 when no pylint executable is found on PATH
CallPylintNotFound ==
    /\ pc = "lint"
    /\ spawned' = Append(spawned, Spawn("pylint", args.files, FALSE, FALSE, 0))
    /\ exc' = NotFound("pylint")
    /\ pc' = "lint_exit"
    /\ UNCHANGED <<argv, args, manifest_present, manifest_text, environ, dirs,
                   installed, reqs, reqs_hash, venv_dir, to_restore,
                   install_result, result, fslog, stderr, runs,
                   environ_at_entry, dirs_at_start, keyvars>>

\* lines 41-43 on the way out of line 102's with, then lines 104-107
ExitLintContext ==
    /\ pc = "lint_exit"
    /\ environ' = Restore(environ, to_restore)
    /\ EndRun(CASE exc.type = "none" -> Returned(0)
                [] exc.type = "CalledProcessError" -> Returned(exc.returncode)
                [] OTHER -> Raised(exc.type))
    /\ exc' = NoExc
    /\ UNCHANGED <<argv, args, manifest_present, manifest_text, dirs,
                   installed, reqs, reqs_hash, venv_dir, to_restore,
                   install_result, spawned, fslog, stderr, runs,
                   environ_at_entry, dirs_at_start, keyvars>>

\* the hook is run again: a new process, with the command line, the manifest
\* and the environment of the first, on the filesystem the earlier runs left
NextRun ==
    /\ pc = "done"
    /\ runs < MaxRuns
    /\ runs' = runs + 1
    /\ environ' = environ_at_entry
    /\ dirs_at_start' = dirs
    /\ pc' = "start"
    /\ args' = [requirements |-> <<>>, files |-> <<>>]
    /\ reqs' = <<>>
    /\ reqs_hash' = ""
    /\ venv_dir' = <<>>
    /\ to_restore' = [x \in {"HOME"} |-> "h"]
    /\ exc' = NoExc
    /\ install_result' = NoResult
    /\ result' = NoResult
    /\ spawned' = <<>>
    /\ fslog' = <<>>
    /\ stderr' = <<>>
    /\ UNCHANGED <<argv, manifest_present, manifest_text, dirs, installed,
                   environ_at_entry, keyvars>>

Next ==
    \/ ParseArguments
    \/ ReadRequirements
    \/ ComputeHash
    \/ LocateVenv
    \/ CheckCache
    \/ CallVirtualenv
    \/ EnterPipContext
    \/ CallPipRuns
    \/ CallPipNotFound
    \/ ExitPipContext
    \/ HandleInstallError
    \/ EnterLintContext
    \/ CallPylintRuns
    \/ CallPylintNotFound
    \/ ExitLintContext
    \/ NextRun

Spec == Init /\ [][Next]_vars


----------------------------------------------------------------------------
(* The cache-key derivation on its own: two manifests, lines 94-95 on each *)

InitKey ==
    /\ argv = [requirements |-> <<>>, files |-> <<>>]
    /\ manifest_present = FALSE
    /\ manifest_text = <<>>
    /\ environ = [x \in {"HOME"} |-> "h"]
    /\ dirs = {}
    /\ installed = {}
    /\ runs = 0
    /\ environ_at_entry = environ
    /\ dirs_at_start = dirs
    /\ RunStart
    /\ kpc = "input"
    /\ textA \in TextsUpTo(MaxTextLen)
    /\ textB \in TextsUpTo(MaxTextLen)
    /\ reqsA = <<>> /\ reqsB = <<>>
    /\ joinedA = <<>> /\ joinedB = <<>>
    /\ keyA = "" /\ keyB = ""

\* line 94
KeyRead ==
    /\ kpc = "input"
    /\ reqsA' = read_requirements(textA)
    /\ reqsB' = read_requirements(textB)
    /\ kpc' = "read"
    /\ UNCHANGED <<mainvars, textA, textB, joinedA, joinedB, keyA, keyB>>

\* line 95: '\n'.join(reqs).encode()
KeyJoin ==
    /\ kpc = "read"
    /\ joinedA' = HashedString(reqsA)
    /\ joinedB' = HashedString(reqsB)
    /\ kpc' = "joined"
    /\ UNCHANGED <<mainvars, textA, textB, reqsA, reqsB, keyA, keyB>>

\* line 95: hashlib.sha1(...).hexdigest()
KeyHash ==
    /\ kpc = "joined"
    /\ keyA' = Sha1Hex(joinedA)
    /\ keyB' = Sha1Hex(joinedB)
    /\ kpc' = "hashed"
    /\ UNCHANGED <<mainvars, textA, textB, reqsA, reqsB, joinedA, joinedB>>

NextKey == KeyRead \/ KeyJoin \/ KeyHash

SpecKey == InitKey /\ [][NextKey]_vars


----------------------------------------------------------------------------
(* Properties *)

Steps(prog) == {i \in 1..Len(spawned) : spawned[i].prog = prog}
ProvisioningSteps == Steps("virtualenv") \cup Steps("pip install")
\* the provisioning steps that ran and exited with a non-zero code
FailedSteps ==
    {i \in ProvisioningSteps : spawned[i].started /\ spawned[i].returncode # 0}
\* the linter processes that ran to an exit code
LinterExits == {i \in Steps("pylint") : spawned[i].started}
InScope == pc \in {"pip", "pip_exit", "lint", "lint_exit"}
VenvUnset == ~IsSet(environ_at_entry, "VIRTUAL_ENV")

\* C1: when a provisioning step exits with a non-zero code c, the exit code
\* of the run is c.
C1_ExitCodeIsProvisioningCode ==
    pc = "done" =>
        \A i \in FailedSteps : ExitStatus(result) = spawned[i].returncode

\* C2: when provisioning did not fail, main returns the linter's exit code
\* unchanged, 0 or not; and a run that returns without a provisioning failure
\* has run the linter.
C2_LinterCodePropagated ==
    (pc = "done" /\ FailedSteps = {}) =>
        /\ \A i \in LinterExits : result = Returned(spawned[i].returncode)
        /\ result.kind = "return" => LinterExits # {}

C2_Witness ==
    /\ pc = "done"
    /\ Steps("virtualenv") # {}
    /\ FailedSteps = {}
    /\ \E i \in LinterExits : spawned[i].returncode = 2
    /\ result = Returned(2)

\* C3: the number of provisioning invocations of a run is 0 when the cache
\* directory existed at the lookup, and then only the linter is invoked, and
\* exactly 1 when it did not.
C3_ProvisioningByExistence ==
    (venv_dir # <<>> /\ pc \notin {"exists", "install"}) =>
        IF venv_dir \in dirs_at_start
        THEN /\ ProvisioningSteps = {}
             /\ install_result.kind = "none"
             /\ pc = "done" => Steps("pylint") = {1}
        ELSE Cardinality(Steps("virtualenv")) = 1

C3_Witness ==
    /\ pc = "done"
    /\ StaleDir \in dirs_at_start
    /\ venv_dir # <<>>
    /\ venv_dir \notin dirs_at_start
    /\ Cardinality(Steps("virtualenv")) = 1
    /\ Steps("pylint") # {}

\* C4: outside a venv_context scope os.environ is the table main was entered
\* with, however the scope's body ended.
C4_EnvironRestored ==
    ~InScope => environ = environ_at_entry

C4_Witness ==
    /\ pc = "done"
    /\ result = Raised("TypeError")
    /\ \E i \in FailedSteps : spawned[i].prog = "pip install"
    /\ IsSet(environ, "PYTHON_HOME")
    /\ ~IsSet(environ, "PIP_DISABLE_PIP_VERSION_CHECK")
    /\ ~IsSet(environ, "PATH")

\* C5: after a provisioning step that exited non-zero, the linter is not
\* invoked in that run.
C5_NoLinterAfterFailedProvisioning ==
    FailedSteps # {} =>
        /\ Steps("pylint") = {}
        /\ pc \notin {"lint_enter", "lint", "lint_exit"}

C5_Witness ==
    /\ pc = "done"
    /\ \E i \in FailedSteps : spawned[i].prog = "virtualenv"

\* C6: the arguments of pip install are the requirement list read from the
\* manifest.
C6_PipGetsRequirementList ==
    \A i \in Steps("pip install") : spawned[i].args = reqs

\* C7: when a provisioning step exits non-zero, install_virtualenv prints a
\* diagnostic with the command, its stdout and its stderr, and returns the
\* code; it does not raise.
C7_DiagnosticAndReturnCode ==
    (FailedSteps # {} /\ pc \notin {"install_except", "pip_exit"}) =>
        \A i \in FailedSteps :
            /\ install_result = Returned(spawned[i].returncode)
            /\ Len(stderr) = 1
            /\ stderr[1] = [command |-> spawned[i].prog,
                            stdout |-> TRUE, stderr |-> TRUE]

\* C8 as stated: with VIRTUAL_ENV unset the run fails with the configuration
\* error before any filesystem access and before any process is started.
C8_FailsBeforeAnyAccess ==
    VenvUnset =>
        /\ Len(fslog) = 0
        /\ Len(spawned) = 0
        /\ pc = "done" => result = Raised("RuntimeError")

\* C8 as amended: with VIRTUAL_ENV unset the run opens the manifest and then
\* fails, with the configuration error when the manifest could be read and
\* with the error of the read otherwise, before the existence check of the
\* cache directory and before any process is started.
C8_FailsBeforeLookupAndSpawn ==
    VenvUnset =>
        /\ \A i \in 1..Len(fslog) : fslog[i].op = "open"
        /\ Len(spawned) = 0
        /\ dirs = dirs_at_start
        /\ pc \in {"start", "read", "hash", "locate", "done"}
        /\ pc = "done" =>
              result = IF manifest_present
                       THEN Raised("RuntimeError")
                       ELSE Raised("FileNotFoundError")

C8_Witness ==
    /\ VenvUnset
    /\ pc = "done"
    /\ result = Raised("RuntimeError")
    /\ Len(fslog) = 1
    /\ fslog[1] = [op |-> "open", found |-> TRUE]

\* C9: two requirement lists have the same hashed string, and the same cache
\* key, exactly when they are the same sequence of lines.
C9_KeyEqualIffSameList ==
    kpc = "hashed" =>
        /\ (joinedA = joinedB) <=> (reqsA = reqsB)
        /\ (keyA = keyB) <=> (reqsA = reqsB)

C9_Witness ==
    /\ kpc = "hashed"
    /\ reqsA = << <<NL>>, <<"p", NL>> >>
    /\ reqsB = << <<"p", NL>>, <<NL>> >>
    /\ keyA # keyB

\* a step of the program that starts virtualenv on directory d
Creates(d) ==
    /\ Len(spawned') = Len(spawned) + 1
    /\ spawned'[Len(spawned')].prog = "virtualenv"
    /\ spawned'[Len(spawned')].args = <<d>>

\* a run that found its cache directory at its start only runs the linter
CacheHitRun ==
    (venv_dir # <<>> /\ venv_dir \in dirs_at_start) =>
        /\ ProvisioningSteps = {}
        /\ pc \notin {"install", "install_except", "pip_enter", "pip", "pip_exit"}

\* C10: a cache directory that exists is never removed and virtualenv is never
\* started on it again, and every run that starts with it in place performs no
\* provisioning, whether or not the installation into it completed.
C10_CreatedOnceNeverRepaired ==
    /\ []CacheHitRun
    /\ [][\A d \in dirs : d \in dirs' /\ ~Creates(d)]_vars

C10_Witness ==
    /\ runs >= 1
    /\ pc = "done"
    /\ venv_dir \in dirs_at_start
    /\ venv_dir \notin installed
    /\ Len(spawned) = 1
    /\ spawned[1].prog = "pylint"

====
